---- MODULE Spec2Model ----
(***************************************************************************)
(* Model of the editor controller of src/src/editor/index.tsx: the text   *)
(* mutation contract (setText, insertText, insertPlaceholder), the render *)
(* pipeline (renderHTML, setHtml), the reconciliation of the value prop   *)
(* (componentDidUpdate), the drop/paste upload path                       *)
(* (uploadWithDataTransfer), the static plugin registry (use, unuse,      *)
(* unuseAll, getPlugins), the keyboard listeners (onKeyboard,             *)
(* offKeyboard, handleKeyDown), the selection (getSelection,              *)
(* setSelection) and the scroll synchronizer (handleSyncScroll).          *)
(*                                                                         *)
(* A text is a sequence of characters.  "R" stands for the sentinel       *)
(* return character U+21B5, "N" for the newline, "a" for any other        *)
(* character; an upload placeholder token, which embeds a uuid, is one    *)
(* character of its own ("t1", "t2").                                     *)
(*                                                                         *)
(* React is modelled as the legacy synchronous renderer: a setState made  *)
(* outside a React event handler (a host call through the ref, a promise  *)
(* callback, a CodeMirror event) is applied before setState returns and   *)
(* is followed by componentDidUpdate.  The host supplies props.onChange    *)
(* and, for drops and pastes, config.onImageUpload.                       *)
(***************************************************************************)
EXTENDS Integers, Sequences, FiniteSets, TLC

\* ------------------------------------------------------------------ bounds
MaxPending == 2      \* renders in flight at one time
MaxText == 2         \* longest text after insertPlaceholder or at a drop
MaxItems == 2        \* items of one drop or paste
MaxTokens == 2       \* upload placeholders created in one run
MaxFrames == 2       \* frame callbacks waiting when a scroll event is taken
MaxEvents == 3       \* fullscreen events emitted in one run

\* -------------------------------------------------------------- characters
Sentinel == "R"
Newline == "N"
Chars == {"a", Sentinel, Newline}

\* the strings the host hands to setText, value and defaultValue
HostTexts == {<<>>, <<"a">>, <<Sentinel>>, <<Newline>>, <<"a", Sentinel>>}

\* props.value === undefined
Undefined == <<"undefined">>

\* value.replace(/R/g, '\n')
NormalizeIdentity(value) == value
Normalize(value) ==
    [i \in 1..Len(value) |-> IF value[i] = Sentinel THEN Newline ELSE value[i]]

\* the host's render function, a pure function of the text; state.html is ''
\* until the first render settles
EmptyHtml == <<>>
Render(markdownText) == <<"h">> \o markdownText

VARIABLES
    text,               \* state.text
    html,               \* state.html
    propValue,          \* props.value, Undefined when the editor is uncontrolled
    renderMode,         \* shape of props.renderHTML: "none", "sync" or "async"
    onChangeTrigger,    \* config.onChangeTrigger
    hasContentChanged,  \* this.hasContentChanged
    mounted,            \* componentDidMount has run
    pending,            \* renders in flight: <<[text, after]>> in issue order
    afterQ,             \* "after render" callbacks queued as microtasks
    step,               \* what the last operation did (history)
    placeholders,       \* insertPlaceholder: tokens whose promise is unsettled
    queue,              \* uploadWithDataTransfer: the queue of the last drop
    queueOpen,          \* the Promise.all(queue) callback has not run yet
    uploads,            \* tokens whose upload is unsettled
    nextToken,          \* number of the next upload placeholder (its uuid)
    edited,             \* the user typed since the last drop (history)
    plugins,            \* Editor.plugins, the static registry
    propPlugins,        \* props.plugins, NoList when the prop is absent
    statePlugins,       \* state.plugins, the result of getPlugins
    keyboardListeners,  \* this.keyboardListeners
    surfaceSelection,   \* the selection of the editing surface (nodeEditor)
    scrollScale,        \* this.scrollScale, a ratio
    isSyncingScroll,    \* this.isSyncingScroll
    shouldSyncScroll,   \* this.shouldSyncScroll: "md" or "html"
    syncScrollMode,     \* config.syncScrollMode
    frames,             \* requestAnimationFrame callbacks not yet run
    scrollTop,          \* scroll offset of each pane
    scrollHeight,       \* content height of each pane
    scrollEvents,       \* panes with a scroll event of a programmatic write waiting
    pointer,            \* the pane the pointer is over, "out" when over neither
    unmounted,          \* componentWillUnmount has run
    fullScreen,         \* state.fullScreen
    view,               \* state.view
    fullScreenEvents    \* payloads emitted on the fullscreen channel (history)

coreVars == <<text, html, propValue, renderMode, onChangeTrigger,
              hasContentChanged, mounted, pending, afterQ, step>>
placeholderVars == <<placeholders>>
uploadVars == <<queue, queueOpen, uploads, nextToken, edited>>
pluginVars == <<plugins, propPlugins, statePlugins>>
keyboardVars == <<keyboardListeners>>
surfaceVars == <<surfaceSelection>>
scrollVars == <<scrollScale, isSyncingScroll, shouldSyncScroll, syncScrollMode,
                frames, scrollTop, scrollHeight, scrollEvents, pointer, unmounted>>
viewVars == <<fullScreen, view, fullScreenEvents>>
interactionVars == <<keyboardVars, surfaceVars, scrollVars, viewVars>>

\* the instance apart from the history
instanceVars == <<text, html, propValue, renderMode, onChangeTrigger,
                  hasContentChanged, mounted, pending, afterQ>>


\* ------------------------------------------------------------ the editor
\* The part of the instance the text operations read and write, as a record,
\* so that an operation that calls another is the composition of the two.
\* ev, notes and rd collect what the current call emitted on the "change"
\* channel, passed to props.onChange and handed to the render function.
EditorState ==
    [text |-> text, html |-> html, pending |-> pending, afterQ |-> afterQ,
     dirty |-> hasContentChanged, ev |-> <<>>, notes |-> <<>>, rd |-> <<>>]

\* a value prop that is no string: the number 7
Seven == <<"#7">>

\* the values the host of a controlled editor passes as props.value
ValueProps == HostTexts \cup {Seven}

\* typeof value !== 'string': String(value).toString()
ToStr(value) == IF value = Seven THEN <<"7">> ELSE value

RECURSIVE ComponentDidUpdate(_, _)

\* setHtml: setState({ html }, resolve), then React runs componentDidUpdate
SetHtml(s, h, pv) == ComponentDidUpdate([s EXCEPT !.html = h], pv)

\* renderHTML(markdownText); after: the caller chains an "after render"
\* callback on the returned promise
RenderHTMLUnchecked(s, markdownText, after, pv) ==
    IF renderMode = "async"
    THEN [s EXCEPT !.rd = Append(@, markdownText),
                   !.pending = Append(@, [text |-> markdownText, after |-> after])]
    ELSE LET res == IF renderMode = "none" THEN Undefined ELSE Render(markdownText)
             s1 == SetHtml([s EXCEPT !.rd = Append(@, markdownText)], res, pv)
         IN  IF after THEN [s1 EXCEPT !.afterQ = @ + 1] ELSE s1
RenderHTML(s, markdownText, after, pv) ==
    CASE renderMode = "none" ->
            \* Promise.resolve(): the callback is queued at once
            IF after THEN [s EXCEPT !.afterQ = @ + 1] ELSE s
      [] renderMode = "sync" ->
            \* a plain value or a function: setHtml before renderHTML returns
            LET s1 == SetHtml([s EXCEPT !.rd = Append(@, markdownText)],
                              Render(markdownText), pv)
            IN  IF after THEN [s1 EXCEPT !.afterQ = @ + 1] ELSE s1
      [] OTHER ->
            \* a promise: setHtml when it settles
            [s EXCEPT !.rd = Append(@, markdownText),
                      !.pending = Append(@, [text |-> markdownText, after |-> after])]

\* componentDidUpdate, the value prop (the plugins prop is below)
ComponentDidUpdateRaw(s, pv) ==
    IF pv # Undefined /\ pv # s.text
    THEN LET value == ToStr(pv)
         IN  IF s.text # value
             THEN RenderHTML([s EXCEPT !.text = value], value, FALSE, pv)
             ELSE s
    ELSE s
ComponentDidUpdate(s, pv) ==
    IF pv # Undefined /\ pv # s.text
    THEN LET value == Normalize(ToStr(pv))
         IN  IF s.text # value
             THEN RenderHTML([s EXCEPT !.text = value], value, FALSE, pv)
             ELSE s
    ELSE s

\* setState({ text }), then React runs componentDidUpdate
SetStateTextDeferred(s, t, pv) == s
SetStateText(s, t, pv) == ComponentDidUpdate([s EXCEPT !.text = t], pv)

BeforeTriggers == {"both", "beforeRender"}
AfterTriggers == {"both", "afterRender"}

\* the guard of setText: true when the call returns at once
SetTextNeverNoop(s, value) == FALSE
SetTextIsNoop(s, value) == s.text = value

\* setText(value) with event undefined
SetText(s, value, pv) ==
    LET t == Normalize(value)
    IN  IF SetTextIsNoop(s, value) THEN s
        ELSE
          LET s1 == SetStateText(s, t, pv)
              s2 == IF onChangeTrigger \in BeforeTriggers
                    THEN [s1 EXCEPT !.notes =
                             Append(@, [phase |-> "before", text |-> t, html |-> s1.html])]
                    ELSE s1
              s3 == [s2 EXCEPT !.ev = Append(@, [value |-> value, programmatic |-> TRUE]),
                               !.dirty = TRUE]
          IN  RenderHTML(s3, t, onChangeTrigger \in AfterTriggers, pv)

\* one call as the history records it
CallOf(arg, s1) ==
    [arg |-> arg, after |-> s1.text, ev |-> s1.ev, notes |-> s1.notes, rd |-> s1.rd]

Fresh(s) == [s EXCEPT !.ev = <<>>, !.notes = <<>>, !.rd = <<>>]

\* the instance after an operation left it in state s
Commit(s) ==
    /\ text' = s.text
    /\ html' = s.html
    /\ pending' = s.pending
    /\ afterQ' = s.afterQ
    /\ hasContentChanged' = s.dirty

Room(s) == Len(s.pending) <= MaxPending

RemoveAt(q, i) == [j \in 1..(Len(q) - 1) |-> IF j < i THEN q[j] ELSE q[j + 1]]

\* constructor: text is (props.value || props.defaultValue || '') normalized;
\* an empty value is falsy, so the defaultValue is taken
InitialTexts(pv) ==
    IF pv \notin {Undefined, <<>>} THEN {Normalize(pv)}
    ELSE {Normalize(d) : d \in HostTexts}

CoreInit ==
    /\ propValue \in HostTexts \cup {Undefined}
    /\ text \in InitialTexts(propValue)
    /\ html = EmptyHtml
    /\ renderMode \in {"none", "sync", "async"}
    /\ onChangeTrigger \in {"both", "beforeRender", "afterRender"}
    /\ hasContentChanged = TRUE
    /\ mounted = FALSE
    /\ pending = <<>>
    /\ afterQ = 0
    /\ step = [op |-> "init", calls |-> <<>>]

Config == <<renderMode, onChangeTrigger>>
notCore == <<placeholderVars, uploadVars, pluginVars, interactionVars>>

\* A host call and a props update are tasks of the event loop: a task starts
\* when the microtask queue, where the "after render" callbacks wait, is empty.
TaskReady == mounted /\ afterQ = 0

\* componentDidMount: renderHTML(text)
Mount ==
    /\ ~mounted
    /\ LET s1 == RenderHTML(EditorState, text, FALSE, propValue)
       IN  /\ Commit(s1)
           /\ step' = [op |-> "mount", calls |-> <<CallOf(text, s1)>>]
    /\ mounted' = TRUE
    /\ UNCHANGED <<propValue, Config, notCore>>

\* the host calls setText(x) through its ref
DoSetText(x) ==
    /\ TaskReady
    /\ LET s1 == SetText(EditorState, x, propValue)
       IN  /\ Room(s1)
           /\ Commit(s1)
           /\ step' = [op |-> "setText", calls |-> <<CallOf(x, s1)>>]
    /\ UNCHANGED <<propValue, mounted, Config, notCore>>

\* the host calls setText(x) and setText(y) back to back, in one task
DoSetTextTwice(x, y) ==
    /\ TaskReady
    /\ LET s1 == SetText(EditorState, x, propValue)
           s2 == SetText(Fresh(s1), y, propValue)
       IN  /\ Room(s2)
           /\ Commit(s2)
           /\ step' = [op |-> "setTextTwice", calls |-> <<CallOf(x, s1), CallOf(y, s2)>>]
    /\ UNCHANGED <<propValue, mounted, Config, notCore>>

\* the promise of the i-th render in flight settles: res.then(r => setHtml(r)),
\* which resolves the promise the "after render" callback waits on
SettleRender(i) ==
    /\ mounted
    /\ i \in 1..Len(pending)
    /\ LET r == pending[i]
           s0 == [EditorState EXCEPT !.pending = RemoveAt(@, i)]
           s1 == SetHtml(s0, Render(r.text), propValue)
           s2 == IF r.after THEN [s1 EXCEPT !.afterQ = @ + 1] ELSE s1
       IN  /\ Room(s2)
           /\ Commit(s2)
           /\ step' = [op |-> "settle", calls |-> <<CallOf(r.text, s2)>>]
    /\ UNCHANGED <<propValue, mounted, Config, notCore>>

\* an "after render" callback runs: props.onChange({ text: state.text,
\* html: getHtmlValue() })
DeliverAfter ==
    /\ mounted
    /\ afterQ > 0
    /\ LET s1 == [EditorState EXCEPT
                     !.afterQ = @ - 1,
                     !.notes = Append(@, [phase |-> "after", text |-> text, html |-> html])]
       IN  /\ Commit(s1)
           /\ step' = [op |-> "after", calls |-> <<CallOf(<<>>, s1)>>]
    /\ UNCHANGED <<propValue, mounted, Config, notCore>>

\* the host of a controlled editor renders it with props.value = v:
\* componentDidUpdate.  An editor is controlled or uncontrolled for its whole
\* life: the host does not add or drop the value prop of a mounted editor.
SetValueProp(v) ==
    /\ TaskReady
    /\ propValue # Undefined
    /\ LET s1 == ComponentDidUpdate(EditorState, v)
       IN  /\ Room(s1)
           /\ Commit(s1)
           /\ step' = [op |-> "value", calls |-> <<CallOf(v, s1)>>]
    /\ propValue' = v
    /\ UNCHANGED <<mounted, Config, notCore>>


\* ------------------------------------------------- insertText, placeholders
\* String.prototype.slice(a, b)
Slice(t, a, b) == SubSeq(t, a + 1, b)

\* String.prototype.indexOf(pat) + 1: the first place pat occurs at, else 0
IndexOf(t, pat) ==
    LET hits == {i \in 1..(Len(t) - Len(pat) + 1) : SubSeq(t, i, i + Len(pat) - 1) = pat}
    IN  IF hits = {} THEN 0 ELSE CHOOSE i \in hits : \A j \in hits : i <= j

\* String.prototype.replace(pat, str) with a string pattern: the first
\* occurrence only, the text itself when there is none
Replace(t, pat, str) ==
    LET i == IndexOf(t, pat)
    IN  IF i = 0 THEN t
        ELSE SubSeq(t, 1, i - 1) \o str \o SubSeq(t, i + Len(pat), Len(t))

\* initialSelection of share/var
InitialSelection == [start |-> 0, end |-> 0, text |-> <<>>]

\* getSelection: nodeMdText is a ref no element of render() carries (the
\* textarea is commented out), so nodeMdText.current is null
GetSelection == InitialSelection

\* insertText(value, replaceSelected, newSelection); the deferred
\* setSelection(newSelection) finds nodeMdText.current null and does nothing
InsertText(s, value, replaceSelected, pv) ==
    LET selection == GetSelection
        beforeContent == Slice(s.text, 0, selection.start)
        afterContent ==
            Slice(s.text, IF replaceSelected THEN selection.end ELSE selection.start,
                  Len(s.text))
    IN  SetText(s, beforeContent \o value \o afterContent, pv)

\* the tokens the host passes to insertPlaceholder and what their promises
\* resolve to
Tokens == {<<"p1">>}
PlaceholderResults == {<<"a">>, <<Sentinel>>}

\* the host calls insertPlaceholder(placeholder, wait)
InsertPlaceholder(placeholder) ==
    /\ TaskReady
    /\ placeholder \notin placeholders
    /\ Len(text) + Len(placeholder) <= MaxText
    /\ LET s1 == InsertText(EditorState, placeholder, TRUE, propValue)
       IN  /\ Room(s1)
           /\ Commit(s1)
           /\ step' = [op |-> "insertPlaceholder", calls |-> <<CallOf(placeholder, s1)>>]
    /\ placeholders' = placeholders \cup {placeholder}
    /\ UNCHANGED <<propValue, mounted, Config, uploadVars, pluginVars, interactionVars>>

\* wait resolves with str: setText(getMdValue().replace(placeholder, str))
ResolvePlaceholder(placeholder, str) ==
    /\ mounted
    /\ placeholder \in placeholders
    /\ LET s1 == SetText(EditorState, Replace(text, placeholder, str), propValue)
       IN  /\ Room(s1)
           /\ Commit(s1)
           /\ step' = [op |-> "resolve",
                       calls |-> <<CallOf(placeholder, s1)>>,
                       found |-> IndexOf(text, placeholder) > 0]
    /\ placeholders' = placeholders \ {placeholder}
    /\ UNCHANGED <<propValue, mounted, Config, uploadVars, pluginVars, interactionVars>>


\* ------------------------------------------------- uploadWithDataTransfer
\* getUploadPlaceholder: the n-th placeholder; its uuid makes it unique
Token(n) == <<"t" \o ToString(n)>>

\* a DataTransferItem is an image file, a text/plain string or anything else
ItemKinds == {"file", "string", "other"}
PastedTexts == {<<"a">>}
UploadResults == {<<"u">>}

RECURSIVE SeqsOf(_, _)
SeqsOf(S, n) ==
    IF n = 0 THEN {<<>>}
    ELSE LET shorter == SeqsOf(S, n - 1)
         IN  shorter \cup {Append(q, c) : q \in shorter, c \in S}

Drops == SeqsOf(ItemKinds, MaxItems) \ {<<>>}

FilesIn(items) == Cardinality({i \in 1..Len(items) : items[i] = "file"})

\* the forEach over the items: a file item pushes its placeholder, already
\* resolved; a string item pushes the promise of getAsString; n is the number
\* of the next placeholder
RECURSIVE BuildQueue(_, _)
BuildQueue(items, n) ==
    IF items = <<>> THEN <<>>
    ELSE CASE Head(items) = "file" ->
                <<[kind |-> "file", value |-> Token(n), done |-> TRUE]>>
                    \o BuildQueue(Tail(items), n + 1)
           [] Head(items) = "string" ->
                <<[kind |-> "string", value |-> <<>>, done |-> FALSE]>>
                    \o BuildQueue(Tail(items), n)
           [] OTHER -> BuildQueue(Tail(items), n)

FileTokens(q) == {q[i].value : i \in {j \in 1..Len(q) : q[j].kind = "file"}}

\* res.join('')
RECURSIVE Join(_)
Join(q) == IF q = <<>> THEN <<>> ELSE Head(q).value \o Join(Tail(q))

\* handleDrop / handlePaste with an upload function configured:
\* uploadWithDataTransfer(items) up to the registration of the callbacks
Drop(items) ==
    /\ TaskReady
    /\ ~queueOpen
    /\ nextToken + FilesIn(items) <= MaxTokens + 1
    /\ Len(text) + Len(items) <= MaxText
    /\ queue' = BuildQueue(items, nextToken)
    /\ queueOpen' = TRUE
    /\ uploads' = uploads \cup FileTokens(queue')
    /\ nextToken' = nextToken + FilesIn(items)
    /\ edited' = FALSE
    /\ step' = [op |-> "drop", calls |-> <<CallOf(items, EditorState)>>]
    /\ UNCHANGED <<text, html, pending, afterQ, hasContentChanged>>
    /\ UNCHANGED <<propValue, mounted, Config, placeholderVars, pluginVars, interactionVars>>

\* getAsString calls back with the text of the i-th entry of the queue
ReadString(i, str) ==
    /\ mounted
    /\ queueOpen
    /\ i \in 1..Len(queue)
    /\ queue[i].kind = "string"
    /\ ~queue[i].done
    /\ queue' = [queue EXCEPT ![i] = [kind |-> "string", value |-> str, done |-> TRUE]]
    /\ step' = [op |-> "read", calls |-> <<CallOf(str, EditorState)>>]
    /\ UNCHANGED <<text, html, pending, afterQ, hasContentChanged>>
    /\ UNCHANGED <<queueOpen, uploads, nextToken, edited>>
    /\ UNCHANGED <<propValue, mounted, Config, placeholderVars, pluginVars, interactionVars>>

\* Promise.all(queue) resolves: insertText(res.join(''), true, ...)
InsertBatch ==
    /\ mounted
    /\ queueOpen
    /\ \A i \in 1..Len(queue) : queue[i].done
    /\ LET s1 == InsertText(EditorState, Join(queue), TRUE, propValue)
       IN  /\ Room(s1)
           /\ Commit(s1)
           /\ step' = [op |-> "batch", calls |-> <<CallOf(Join(queue), s1)>>]
    /\ queueOpen' = FALSE
    /\ UNCHANGED <<queue, uploads, nextToken, edited>>
    /\ UNCHANGED <<propValue, mounted, Config, placeholderVars, pluginVars, interactionVars>>

\* placeholder.uploaded resolves with str:
\* setText(getMdValue().replace(placeholder.placeholder, str), undefined, ...)
ResolveUpload(tk, str) ==
    /\ mounted
    /\ tk \in uploads
    /\ LET s1 == SetText(EditorState, Replace(text, tk, str), propValue)
       IN  /\ Room(s1)
           /\ Commit(s1)
           /\ step' = [op |-> "uploaded",
                       calls |-> <<CallOf(tk, s1)>>,
                       found |-> IndexOf(text, tk) > 0]
    /\ uploads' = uploads \ {tk}
    /\ UNCHANGED <<queue, queueOpen, nextToken, edited>>
    /\ UNCHANGED <<propValue, mounted, Config, placeholderVars, pluginVars, interactionVars>>

\* the user types in the CodeMirror surface: its 'change' event calls
\* onChange(e.getValue()), that is handleChange2(value): setText(value)
UserEdit(x) ==
    /\ TaskReady
    /\ LET s1 == SetText(EditorState, x, propValue)
       IN  /\ Room(s1)
           /\ Commit(s1)
           /\ step' = [op |-> "edit", calls |-> <<CallOf(x, s1)>>]
    /\ edited' = TRUE
    /\ UNCHANGED <<queue, queueOpen, uploads, nextToken>>
    /\ UNCHANGED <<propValue, mounted, Config, placeholderVars, pluginVars, interactionVars>>


\* ------------------------------------------------------ the plugin registry
\* Components the host registers, with their static pluginName and align;
\* Bold and Bold2 are two components with one plugin name.  DividerPlugin is
\* the component of plugins/divider.
DividerPlugin == "Divider"
Comps == {"Bold", "Bold2", "Italic"}
PluginName(comp) ==
    CASE comp = "Bold" -> "font-bold"
      [] comp = "Bold2" -> "font-bold"
      [] comp = "Italic" -> "font-italic"
      [] OTHER -> "divider"
Align(comp) == IF comp = "Bold2" THEN "right" ELSE "left"
Configs == {"{}", "cfg"}
EmptyConfig == "{}"

\* the names 'fonts' stands for, in the order of the addToPlugins calls
FontsNames ==
    <<"font-bold", "font-italic", "font-underline", "font-strikethrough",
      "list-unordered", "list-ordered", "block-quote", "block-wrap",
      "block-code-inline", "block-code-block">>

\* props.plugins: absent, or one of these arrays of names
NoList == <<"undefined">>
PluginLists ==
    {<<>>,
     <<"fonts">>,
     <<"font-underline">>,
     <<"font-bold", "font-bold">>,
     <<"fonts", "font-bold">>,
     <<"font-italic", "divider", "font-bold">>,
     <<"divider", "fonts", "divider">>}

\* the index of the first entry of the registry that holds comp, else 0
FindComp(reg, comp) ==
    LET hits == {i \in 1..Len(reg) : reg[i].comp = comp}
    IN  IF hits = {} THEN 0 ELSE CHOOSE i \in hits : \A j \in hits : i <= j

\* Editor.use(comp, config): splice(i, 1, { comp, config }) or push
UseAlwaysPush(reg, comp, config) == Append(reg, [comp |-> comp, config |-> config])
Use(reg, comp, config) ==
    LET i == FindComp(reg, comp)
    IN  IF i > 0 THEN [reg EXCEPT ![i] = [comp |-> comp, config |-> config]]
        ELSE Append(reg, [comp |-> comp, config |-> config])

\* Editor.unuse(comp): splice(i, 1)
Unuse(reg, comp) ==
    LET i == FindComp(reg, comp)
    IN  IF i > 0 THEN RemoveAt(reg, i) ELSE reg

\* addToPlugins(name): the divider, else the first registered component with
\* that plugin name, else nothing
AddEveryMatch(acc, name, reg) ==
    IF name = PluginName(DividerPlugin)
    THEN Append(acc, [comp |-> DividerPlugin, config |-> EmptyConfig])
    ELSE acc \o SelectSeq(reg, LAMBDA it : PluginName(it.comp) = name)
AddToPlugins(acc, name, reg) ==
    IF name = PluginName(DividerPlugin)
    THEN Append(acc, [comp |-> DividerPlugin, config |-> EmptyConfig])
    ELSE LET hits == {i \in 1..Len(reg) : PluginName(reg[i].comp) = name}
         IN  IF hits = {} THEN acc
             ELSE Append(acc, reg[CHOOSE i \in hits : \A j \in hits : i <= j])

RECURSIVE AddAll(_, _, _)
AddAll(acc, names, reg) ==
    IF names = <<>> THEN acc
    ELSE AddAll(AddToPlugins(acc, Head(names), reg), Tail(names), reg)

\* the loop over props.plugins
RECURSIVE AddList(_, _, _)
AddList(acc, list, reg) ==
    IF list = <<>> THEN acc
    ELSE LET acc1 == IF Head(list) = "fonts" THEN AddAll(acc, FontsNames, reg)
                     ELSE AddToPlugins(acc, Head(list), reg)
         IN  AddList(acc1, Tail(list), reg)

\* React.createElement(it.comp, { config, key: it.comp.pluginName })
Element(it) == [comp |-> it.comp, config |-> it.config, key |-> PluginName(it.comp)]

\* the forEach that files each element under result[it.comp.align]
RECURSIVE ByAlign(_, _)
ByAlign(list, align) ==
    IF list = <<>> THEN <<>>
    ELSE (IF Align(Head(list).comp) = align THEN <<Element(Head(list))>> ELSE <<>>)
         \o ByAlign(Tail(list), align)

\* getPlugins(): an array prop is truthy also when it is empty
GetPlugins(list, reg) ==
    LET chosen == IF list # NoList THEN AddList(<<>>, list, reg) ELSE reg
    IN  [left |-> ByAlign(chosen, "left"), right |-> ByAlign(chosen, "right")]


\* the state the plugin operations leave alone
editorVars == <<text, html, propValue, renderMode, onChangeTrigger,
                hasContentChanged, mounted, pending, afterQ,
                placeholderVars, uploadVars, interactionVars>>

\* Editor.use(comp, config)
DoUse(comp, config) ==
    /\ plugins' = Use(plugins, comp, config)
    /\ step' = [op |-> "use", comp |-> comp, config |-> config]
    /\ UNCHANGED <<propPlugins, statePlugins, editorVars>>

\* Editor.unuse(comp)
DoUnuse(comp) ==
    /\ plugins' = Unuse(plugins, comp)
    /\ step' = [op |-> "unuse", comp |-> comp]
    /\ UNCHANGED <<propPlugins, statePlugins, editorVars>>

\* Editor.unuseAll()
DoUnuseAll ==
    /\ plugins' = <<>>
    /\ step' = [op |-> "unuseAll"]
    /\ UNCHANGED <<propPlugins, statePlugins, editorVars>>

\* a new instance is constructed with props.plugins = list
Construct(list) ==
    /\ propPlugins' = list
    /\ statePlugins' = GetPlugins(list, plugins)
    /\ step' = [op |-> "construct"]
    /\ UNCHANGED <<plugins, editorVars>>

\* the host renders the instance with another plugins array:
\* componentDidUpdate sets state.plugins to getPlugins()
UpdatePlugins(list) ==
    /\ propPlugins' = list
    /\ statePlugins' = GetPlugins(list, plugins)
    /\ step' = [op |-> "plugins"]
    /\ UNCHANGED <<plugins, editorVars>>


\* ------------------------------------------------------ keyboard listeners
\* The listener objects the host holds.  k1 and k2 are two objects with one
\* key combination; the callback of k3 unregisters k3 (a one-shot listener).
Listeners == {"k1", "k2", "k3"}
Combination(it) == IF it = "k3" THEN "ctrl-i" ELSE "ctrl-b"
KeyEvents == {"ctrl-b", "ctrl-i", "x"}
ListenerArrays == {<<"k2", "k1">>, <<"k3", "k3">>, <<"k1", "k3", "k1">>}

\* isKeyMatch(e, it) of utils/tool: the event is the combination of it
IsKeyMatch(e, it) == e = Combination(it)

\* Array.prototype.includes and indexOf (+ 1): by reference
Includes(reg, data) == \E i \in 1..Len(reg) : reg[i] = data
IndexOfListener(reg, data) ==
    LET hits == {i \in 1..Len(reg) : reg[i] = data}
    IN  IF hits = {} THEN 0 ELSE CHOOSE i \in hits : \A j \in hits : i <= j

\* onKeyboard(data), data one listener
OnKeyboard(reg, data) ==
    IF ~Includes(reg, data) THEN Append(reg, data) ELSE reg

\* onKeyboard(data), data an array: data.forEach(it => this.onKeyboard(it))
RECURSIVE OnKeyboardEach(_, _)
OnKeyboardEach(reg, data) ==
    IF data = <<>> THEN reg
    ELSE OnKeyboardEach(OnKeyboard(reg, Head(data)), Tail(data))

\* offKeyboard(data), data one listener
OffKeyboard(reg, data) ==
    LET index == IndexOfListener(reg, data)
    IN  IF index > 0 THEN RemoveAt(reg, index) ELSE reg

\* offKeyboard(data), data an array
RECURSIVE OffKeyboardEach(_, _)
OffKeyboardEach(reg, data) ==
    IF data = <<>> THEN reg
    ELSE OffKeyboardEach(OffKeyboard(reg, Head(data)), Tail(data))

\* handleKeyDown(e), the loop over the listeners from rest on: the listeners
\* whose callback is invoked, whether the default was prevented, whether the
\* keydown event was emitted
HandleKeyDownNoReturn(rest, e) ==
    [invoked |-> SelectSeq(rest, LAMBDA it : IsKeyMatch(e, it)),
     prevented |-> \E i \in 1..Len(rest) : IsKeyMatch(e, rest[i]),
     emitted |-> TRUE]
HandleKeyDownSilent(rest, e) ==
    LET hits == {i \in 1..Len(rest) : IsKeyMatch(e, rest[i])}
    IN  [invoked |-> IF hits = {} THEN <<>>
                     ELSE <<rest[CHOOSE i \in hits : \A j \in hits : i <= j]>>,
         prevented |-> hits # {},
         emitted |-> FALSE]
RECURSIVE HandleKeyDown(_, _)
HandleKeyDown(rest, e) ==
    IF rest = <<>> THEN [invoked |-> <<>>, prevented |-> FALSE, emitted |-> TRUE]
    ELSE IF IsKeyMatch(e, Head(rest))
         THEN [invoked |-> <<Head(rest)>>, prevented |-> TRUE, emitted |-> FALSE]
         ELSE HandleKeyDown(Tail(rest), e)

\* it.callback(e): what the callbacks of the invoked listeners do to the list
RECURSIVE Callbacks(_, _)
Callbacks(reg, invoked) ==
    IF invoked = <<>> THEN reg
    ELSE Callbacks(IF Head(invoked) = "k3" THEN OffKeyboard(reg, "k3") ELSE reg,
                   Tail(invoked))

\* the state the keyboard operations leave alone
notKeyboard == <<instanceVars, placeholderVars, uploadVars, pluginVars,
                 surfaceVars, scrollVars, viewVars>>

\* the host calls onKeyboard(data) with one listener
DoOnKeyboard(data) ==
    /\ keyboardListeners' = OnKeyboard(keyboardListeners, data)
    /\ step' = [op |-> "onKeyboard", data |-> <<data>>, before |-> keyboardListeners]
    /\ UNCHANGED notKeyboard

\* the host calls onKeyboard(data) with an array
DoOnKeyboardArray(data) ==
    /\ keyboardListeners' = OnKeyboardEach(keyboardListeners, data)
    /\ step' = [op |-> "onKeyboard", data |-> data, before |-> keyboardListeners]
    /\ UNCHANGED notKeyboard

\* the host calls offKeyboard(data) with one listener
DoOffKeyboard(data) ==
    /\ keyboardListeners' = OffKeyboard(keyboardListeners, data)
    /\ step' = [op |-> "offKeyboard", data |-> <<data>>, before |-> keyboardListeners]
    /\ UNCHANGED notKeyboard

\* the host calls offKeyboard(data) with an array
DoOffKeyboardArray(data) ==
    /\ keyboardListeners' = OffKeyboardEach(keyboardListeners, data)
    /\ step' = [op |-> "offKeyboard", data |-> data, before |-> keyboardListeners]
    /\ UNCHANGED notKeyboard

\* a keydown event reaches the root element: handleKeyDown(e)
KeyDown(e) ==
    /\ LET r == HandleKeyDown(keyboardListeners, e)
       IN  /\ keyboardListeners' = Callbacks(keyboardListeners, r.invoked)
           /\ step' = [op |-> "keydown", key |-> e, before |-> keyboardListeners,
                       invoked |-> r.invoked, prevented |-> r.prevented,
                       emitted |-> r.emitted]
    /\ UNCHANGED notKeyboard

KeyboardInit == keyboardListeners = <<>>


\* ------------------------------------------- the selection and insertText
\* nodeMdText.current: render() attaches the ref to no element
Null == "null"
NodeMdText == Null

\* the offsets of the selections of a text
Offsets(t) == {[start |-> a, end |-> b] : a, b \in 0..Len(t)}
Selections(t) == {sel \in Offsets(t) : sel.start <= sel.end}

\* a text of the greatest length
LongestText == [i \in 1..MaxText |-> "a"]

\* setSelection(to): setSelectionRange on the element of nodeMdText
SetSelection(sel, to) ==
    IF NodeMdText # Null THEN [start |-> to.start, end |-> to.end] ELSE sel

\* newSelection of insertText: absent, or offsets inside the inserted value
NoSelection == [start |-> -1, end |-> -1]
InsertedTexts == {<<"a">>, <<Newline>>}
NewSelections == {NoSelection, [start |-> 0, end |-> 1], [start |-> 1, end |-> 1]}

\* the selection insertText hands to setText
InsertTextSelection(t, newSelection) ==
    LET selection == GetSelection
        beforeContent == Slice(t, 0, selection.start)
    IN  IF newSelection # NoSelection
        THEN [start |-> newSelection.start + Len(beforeContent),
              end |-> newSelection.end + Len(beforeContent)]
        ELSE [start |-> selection.start, end |-> selection.start]

\* the state the selection operations leave alone
notSurface == <<placeholderVars, uploadVars, pluginVars, keyboardVars, scrollVars,
                viewVars>>

\* the user selects a range in the editing surface
UserSelect(sel) ==
    /\ mounted
    /\ sel \in Selections(text)
    /\ surfaceSelection' = sel
    /\ step' = [op |-> "select", to |-> sel]
    /\ UNCHANGED <<instanceVars, notSurface>>

\* the host calls setSelection(to) and then getSelection()
DoSetSelection(to) ==
    /\ TaskReady
    /\ to \in Selections(text)
    /\ surfaceSelection' = SetSelection(surfaceSelection, to)
    /\ step' = [op |-> "setSelection", to |-> to, got |-> GetSelection]
    /\ UNCHANGED <<instanceVars, notSurface>>

\* the host calls insertText(value, replaceSelected, newSelection); the
\* deferred setSelection of setText runs before the next task of the host
DoInsertText(value, replaceSelected, newSelection) ==
    /\ TaskReady
    /\ Len(text) + Len(value) <= MaxText
    /\ LET s1 == InsertText(EditorState, value, replaceSelected, propValue)
           requested == InsertTextSelection(text, newSelection)
       IN  /\ Room(s1)
           /\ Commit(s1)
           /\ surfaceSelection' = SetSelection(surfaceSelection, requested)
           /\ step' = [op |-> "insertText", calls |-> <<CallOf(value, s1)>>,
                       before |-> text, selection |-> surfaceSelection,
                       replaceSelected |-> replaceSelected,
                       newSelection |-> newSelection, requested |-> requested]
    /\ UNCHANGED <<propValue, mounted, Config, notSurface>>

SurfaceInit == surfaceSelection = [start |-> 0, end |-> 0]


\* ------------------------------------------------------ scroll synchronizer
\* The two panes are named as handleSyncScroll names them: "md" is the editing
\* surface, "html" the preview.  Offsets and the scale are ratios num / den.
Panes == {"md", "html"}
Ratio(n, d) == [num |-> n, den |-> d]

RECURSIVE Gcd(_, _)
Gcd(a, b) == IF b = 0 THEN a ELSE Gcd(b, a % b)

\* a ratio in lowest terms; 0 is 0 / 1
Reduce(r) ==
    IF r.num = 0 THEN Ratio(0, 1)
    ELSE LET g == Gcd(r.num, r.den) IN Ratio(r.num \div g, r.den \div g)

\* a / r and a * r
Over(a, r) == Reduce(Ratio(a.num * r.den, a.den * r.num))
Times(a, r) == Reduce(Ratio(a.num * r.num, a.den * r.den))

\* the offsets the user scrolls a pane to, the content heights of a pane
UserOffsets == {0, 1, 2}
Heights == {1, 2}

\* config.syncScrollMode; the mode that makes the other pane follow type
SyncScrollModes == {{}, {"rightFollowLeft"}, {"rightFollowLeft", "leftFollowRight"}}
FollowMode(type) == IF type = "md" THEN "rightFollowLeft" ELSE "leftFollowRight"

\* nodeMdPreviewWrapper.current: the div of the preview while it is rendered
PreviewWrapper == IF mounted /\ ~unmounted THEN "div" ELSE Null

\* nodeEditor.display.cursorDiv: nodeEditor is set by onInit when the surface
\* mounts and is not cleared
CursorDiv == IF mounted THEN "div" ELSE Null

\* the condition under which a frame callback writes
PanesAvailable == CursorDiv # Null /\ PreviewWrapper # Null

\* isSyncingScroll when a frame callback returns
SyncingAfterSkippedWrite(available) == ~available
SyncingAfterCallback(available) == FALSE

\* if (!this.isSyncingScroll): whether the handler requests a frame
RequestsFrameAlways(syncing) == TRUE
RequestsFrame(syncing) == ~syncing

\* the state the scroll operations leave alone
notScroll == <<text, html, propValue, renderMode, onChangeTrigger, mounted,
               pending, afterQ, placeholderVars, uploadVars, pluginVars,
               keyboardVars, surfaceVars, viewVars>>

\* handleSyncScroll(type, e); origin tells the model who scrolled the pane,
\* the handler cannot see it
HandleSyncScroll(type, origin) ==
    LET record(emitted, rescaled, scheduled) ==
            [op |-> "scroll", type |-> type, origin |-> origin,
             active |-> shouldSyncScroll, dirty |-> hasContentChanged,
             syncing |-> isSyncingScroll, emitted |-> emitted,
             rescaled |-> rescaled, scheduled |-> scheduled]
    IN  IF type # shouldSyncScroll
        THEN /\ step' = record(FALSE, FALSE, FALSE)
             /\ UNCHANGED <<scrollScale, hasContentChanged, isSyncingScroll, frames>>
        ELSE IF FollowMode(type) \notin syncScrollMode
        THEN /\ step' = record(TRUE, FALSE, FALSE)
             /\ UNCHANGED <<scrollScale, hasContentChanged, isSyncingScroll, frames>>
        ELSE LET rescale == hasContentChanged /\ NodeMdText # Null
                                /\ PreviewWrapper # Null
                 schedule == RequestsFrame(isSyncingScroll)
             IN  /\ IF rescale
                    THEN /\ scrollScale' = Ratio(scrollHeight["md"], scrollHeight["html"])
                         /\ hasContentChanged' = FALSE
                    ELSE UNCHANGED <<scrollScale, hasContentChanged>>
                 /\ IF schedule
                    THEN /\ isSyncingScroll' = TRUE
                         /\ frames' = Append(frames, type)
                    ELSE UNCHANGED <<isSyncingScroll, frames>>
                 /\ step' = record(TRUE, rescale, schedule)

\* the requestAnimationFrame callbacks of one frame, run in the order of their
\* requests: the offsets they leave and the writes they made
RECURSIVE RunCallbacks(_, _, _)
RunCallbacks(callbacks, tops, writes) ==
    IF callbacks = <<>> THEN [tops |-> tops, writes |-> writes]
    ELSE LET type == Head(callbacks)
             to == IF type = "md"
                   THEN [pane |-> "html", value |-> Over(tops["md"], scrollScale)]
                   ELSE [pane |-> "md", value |-> Times(tops["html"], scrollScale)]
         IN  IF PanesAvailable
             THEN RunCallbacks(Tail(callbacks), [tops EXCEPT ![to.pane] = to.value],
                               Append(writes, to))
             ELSE RunCallbacks(Tail(callbacks), tops, writes)

\* the user scrolls a pane to an offset: its scroll event
UserScroll(type, offset) ==
    /\ mounted
    /\ ~unmounted
    /\ Len(frames) <= MaxFrames
    /\ scrollTop[type] # Ratio(offset, 1)
    /\ scrollTop' = [scrollTop EXCEPT ![type] = Ratio(offset, 1)]
    /\ HandleSyncScroll(type, "user")
    /\ UNCHANGED <<shouldSyncScroll, syncScrollMode, scrollHeight, scrollEvents, pointer,
                   unmounted>>
    /\ UNCHANGED notScroll

\* the scroll event of a pane whose offset a frame callback wrote
WriteScrolled(type) ==
    /\ mounted
    /\ ~unmounted
    /\ Len(frames) <= MaxFrames
    /\ type \in scrollEvents
    /\ scrollEvents' = scrollEvents \ {type}
    /\ HandleSyncScroll(type, "write")
    /\ UNCHANGED <<shouldSyncScroll, syncScrollMode, scrollHeight, scrollTop, pointer,
                   unmounted>>
    /\ UNCHANGED notScroll

\* an animation frame: the callbacks requested since the last one run; a
\* pane whose offset a write changed raises a scroll event
AnimationFrame ==
    /\ mounted
    /\ frames # <<>>
    /\ LET r == RunCallbacks(frames, scrollTop, <<>>)
       IN  /\ scrollTop' = r.tops
           /\ scrollEvents' = scrollEvents \cup {p \in Panes : r.tops[p] # scrollTop[p]}
           /\ step' = [op |-> "frame", callbacks |-> frames, writes |-> r.writes,
                       from |-> scrollTop]
    /\ frames' = <<>>
    /\ isSyncingScroll' = SyncingAfterCallback(PanesAvailable)
    /\ UNCHANGED <<scrollScale, hasContentChanged, shouldSyncScroll, syncScrollMode,
                   scrollHeight, pointer, unmounted>>
    /\ UNCHANGED notScroll

\* the pointer moves over a pane: onMouseOver, which only the preview has
MouseOver(pane) ==
    /\ mounted
    /\ ~unmounted
    /\ pointer # pane
    /\ pointer' = pane
    /\ shouldSyncScroll' = IF pane = "html" THEN "html" ELSE shouldSyncScroll
    /\ step' = [op |-> "mouseover", pane |-> pane]
    /\ UNCHANGED <<scrollScale, hasContentChanged, isSyncingScroll, syncScrollMode,
                   frames, scrollTop, scrollHeight, scrollEvents, unmounted>>
    /\ UNCHANGED notScroll

\* the host removes the editor: componentWillUnmount, which cancels no frame
\* callback; the panes raise no event any more
Unmount ==
    /\ mounted
    /\ ~unmounted
    /\ unmounted' = TRUE
    /\ step' = [op |-> "unmount"]
    /\ UNCHANGED <<scrollScale, hasContentChanged, isSyncingScroll, shouldSyncScroll,
                   syncScrollMode, frames, scrollTop, scrollHeight, scrollEvents,
                   pointer>>
    /\ UNCHANGED notScroll

\* the fields of a new instance, both panes at the top
ScrollFields ==
    /\ scrollScale = Ratio(1, 1)
    /\ isSyncingScroll = FALSE
    /\ shouldSyncScroll = "md"
    /\ frames = <<>>
    /\ scrollTop = [p \in Panes |-> Ratio(0, 1)]
    /\ scrollEvents = {}
    /\ pointer = "out"
    /\ unmounted = FALSE

\* an instance that syncs both ways, the editing pane twice as high
ScrollInit ==
    /\ ScrollFields
    /\ syncScrollMode = {"rightFollowLeft", "leftFollowRight"}
    /\ scrollHeight = [p \in Panes |-> IF p = "md" THEN 2 ELSE 1]


\* ------------------------------------------------- the view and full screen
ViewKeys == {"md", "menu", "html"}

\* the argument of setView: some of the keys, each with a flag
ViewUpdates == UNION {[keys -> BOOLEAN] : keys \in SUBSET ViewKeys}

\* { ...this.state.view, ...to }
MergeView(current, to) ==
    [k \in ViewKeys |-> IF k \in DOMAIN to THEN to[k] ELSE current[k]]

\* fullScreen(enable): the flag it leaves and the payloads it emits
FullScreenUnguarded(current, enable) ==
    [fullScreen |-> enable, emitted |-> <<enable>>]
FullScreen(current, enable) ==
    IF current # enable
    THEN [fullScreen |-> enable, emitted |-> <<enable>>]
    ELSE [fullScreen |-> current, emitted |-> <<>>]

\* the state the view operations leave alone
notView == <<instanceVars, placeholderVars, uploadVars, pluginVars,
             keyboardVars, surfaceVars, scrollVars>>

\* the host calls fullScreen(enable)
DoFullScreen(enable) ==
    /\ Len(fullScreenEvents) < MaxEvents
    /\ LET r == FullScreen(fullScreen, enable)
       IN  /\ fullScreen' = r.fullScreen
           /\ fullScreenEvents' = fullScreenEvents \o r.emitted
           /\ step' = [op |-> "fullScreen", enable |-> enable, emitted |-> r.emitted]
    /\ UNCHANGED <<view, notView>>

\* the host calls setView(to)
DoSetView(to) ==
    /\ view' = MergeView(view, to)
    /\ step' = [op |-> "setView", to |-> to, emitted |-> <<view'>>]
    /\ UNCHANGED <<fullScreen, fullScreenEvents, notView>>

\* handleToggleMenu: setView({ menu: !this.state.view.menu })
ToggleMenu ==
    /\ view' = MergeView(view, [k \in {"menu"} |-> ~view["menu"]])
    /\ step' = [op |-> "toggleMenu", emitted |-> <<view'>>]
    /\ UNCHANGED <<fullScreen, fullScreenEvents, notView>>

\* a new instance is not full screen
ViewFields ==
    /\ fullScreen = FALSE
    /\ fullScreenEvents = <<>>

\* an instance that shows the menu and both panes
ViewInit ==
    /\ ViewFields
    /\ view = [k \in ViewKeys |-> TRUE]

vars == <<coreVars, placeholderVars, uploadVars, pluginVars, interactionVars>>

PlaceholderInit == placeholders = {}

UploadInit ==
    /\ queue = <<>>
    /\ queueOpen = FALSE
    /\ uploads = {}
    /\ nextToken = 1
    /\ edited = FALSE

\* no plugin is registered when the class is loaded; the instance resolved
\* its plugins against that registry
PluginInit ==
    /\ plugins = <<>>
    /\ propPlugins = NoList
    /\ statePlugins = GetPlugins(NoList, <<>>)

Init ==
    /\ CoreInit /\ PlaceholderInit /\ UploadInit /\ PluginInit
    /\ KeyboardInit /\ SurfaceInit /\ ScrollInit /\ ViewInit

Next ==
    \/ Mount
    \/ \E x \in HostTexts : DoSetText(x)
    \/ \E x, y \in HostTexts : DoSetTextTwice(x, y)
    \/ \E i \in 1..MaxPending : SettleRender(i)
    \/ DeliverAfter
    \/ \E v \in HostTexts : SetValueProp(v)

Spec == Init /\ [][Next]_vars

\* the editor with placeholders inserted by the host
NextPlaceholder ==
    \/ Mount
    \/ \E x \in HostTexts : DoSetText(x)
    \/ \E p \in Tokens : InsertPlaceholder(p)
    \/ \E p \in Tokens, str \in PlaceholderResults : ResolvePlaceholder(p, str)
    \/ \E i \in 1..MaxPending : SettleRender(i)
    \/ DeliverAfter

SpecPlaceholder == Init /\ [][NextPlaceholder]_vars

\* the editor with drops and pastes of files and text
NextUpload ==
    \/ Mount
    \/ \E items \in Drops : Drop(items)
    \/ \E i \in 1..MaxItems, str \in PastedTexts : ReadString(i, str)
    \/ InsertBatch
    \/ \E n \in 1..MaxTokens, str \in UploadResults : ResolveUpload(Token(n), str)
    \/ \E x \in HostTexts : UserEdit(x)
    \/ DeliverAfter

\* an uncontrolled editor whose render function returns a plain value
InitUpload == Init /\ propValue = Undefined /\ renderMode = "sync"

SpecUpload == InitUpload /\ [][NextUpload]_vars

\* the static registry and the plugins an instance resolves from it
NextPlugins ==
    \/ \E comp \in Comps, config \in Configs : DoUse(comp, config)
    \/ \E comp \in Comps : DoUnuse(comp)
    \/ DoUnuseAll
    \/ \E list \in PluginLists \cup {NoList} : Construct(list)
    \/ \E list \in PluginLists \cup {NoList} : UpdatePlugins(list)

InitPlugins ==
    /\ Init
    /\ propValue = Undefined
    /\ text = <<>>
    /\ renderMode = "sync"
    /\ onChangeTrigger = "both"

SpecPlugins == InitPlugins /\ [][NextPlugins]_vars

\* the keyboard listeners of one instance
NextKeyboard ==
    \/ \E data \in Listeners : DoOnKeyboard(data)
    \/ \E data \in ListenerArrays : DoOnKeyboardArray(data)
    \/ \E data \in Listeners : DoOffKeyboard(data)
    \/ \E data \in ListenerArrays : DoOffKeyboardArray(data)
    \/ \E e \in KeyEvents : KeyDown(e)

SpecKeyboard == InitPlugins /\ [][NextKeyboard]_vars

\* the editing surface: the user types and selects, the host sets and inserts
NextSurface ==
    \/ Mount
    \/ \E x \in HostTexts : DoSetText(x)
    \/ \E x \in HostTexts : UserEdit(x)
    \/ \E sel \in Selections(LongestText) : UserSelect(sel)
    \/ \E to \in Selections(LongestText) : DoSetSelection(to)
    \/ \E value \in InsertedTexts, replaceSelected \in BOOLEAN,
          newSelection \in NewSelections :
            DoInsertText(value, replaceSelected, newSelection)
    \/ DeliverAfter

\* an instance without a value prop whose render function returns a plain
\* value
InitSurface == Init /\ propValue = Undefined /\ renderMode = "sync"

SpecSurface == InitSurface /\ [][NextSurface]_vars

\* the two panes scrolled by the user and by the synchronizer
NextScroll ==
    \/ Mount
    \/ \E type \in Panes, offset \in UserOffsets : UserScroll(type, offset)
    \/ \E type \in Panes : WriteScrolled(type)
    \/ AnimationFrame
    \/ \E pane \in Panes : MouseOver(pane)
    \/ Unmount

InitScroll ==
    /\ CoreInit /\ PlaceholderInit /\ UploadInit /\ PluginInit
    /\ KeyboardInit /\ SurfaceInit /\ ScrollFields /\ ViewInit
    /\ propValue = Undefined
    /\ text = <<>>
    /\ renderMode = "sync"
    /\ onChangeTrigger = "both"
    /\ syncScrollMode \in SyncScrollModes
    /\ scrollHeight \in [Panes -> Heights]

SpecScroll == InitScroll /\ [][NextScroll]_vars

\* the same with the browser running every requested frame callback
SpecScrollFair == SpecScroll /\ WF_vars(AnimationFrame)

\* a controlled editor: the host renders it with one value after another,
\* strings and a number, and calls setText in between
NextControlled ==
    \/ Mount
    \/ \E v \in ValueProps : SetValueProp(v)
    \/ \E x \in HostTexts : DoSetText(x)
    \/ \E i \in 1..MaxPending : SettleRender(i)
    \/ DeliverAfter

InitControlled == Init /\ propValue # Undefined

SpecControlled == InitControlled /\ [][NextControlled]_vars

\* the view flags and the full-screen flag of one instance
NextView ==
    \/ \E enable \in BOOLEAN : DoFullScreen(enable)
    \/ \E to \in ViewUpdates : DoSetView(to)
    \/ ToggleMenu

InitView ==
    /\ CoreInit /\ PlaceholderInit /\ UploadInit /\ PluginInit
    /\ KeyboardInit /\ SurfaceInit /\ ScrollInit /\ ViewFields
    /\ propValue = Undefined
    /\ text = <<>>
    /\ renderMode = "sync"
    /\ onChangeTrigger = "both"
    /\ view \in [ViewKeys -> BOOLEAN]

SpecView == InitView /\ [][NextView]_vars

\* ------------------------------------------------------------ claims C1-C5
CharsOf(t) == {t[i] : i \in 1..Len(t)}
Uncontrolled == propValue = Undefined
ChangeEvent(value) == [value |-> value, programmatic |-> TRUE]

\* C1: setText(x) then setText(y) with x and y equal after normalization: the
\* second call changes no state, emits no change event, calls no onChange and
\* issues no render, so the pair makes at most one change.  Stated for an
\* instance without a value prop.
C1_SecondCallIsNoop ==
    (step.op = "setTextTwice" /\ Uncontrolled
        /\ Normalize(step.calls[1].arg) = Normalize(step.calls[2].arg))
    => /\ step.calls[2].after = step.calls[1].after
       /\ step.calls[2].ev = <<>>
       /\ step.calls[2].notes = <<>>
       /\ step.calls[2].rd = <<>>

\* C2: once every issued render has settled, the stored html is the render of
\* the current text.  Stated for an instance without a value prop and with a
\* render function.
C2_SettledHtmlIsCurrent ==
    (mounted /\ Uncontrolled /\ renderMode # "none" /\ pending = <<>>)
    => html = Render(text)

\* C3: every "after render" onChange delivers a pair (text, html) in which
\* html is the render of that text.  Stated for an instance without a value
\* prop and with a render function.
C3_AfterPairConsistent ==
    (step.op = "after" /\ Uncontrolled /\ renderMode # "none")
    => \A i \in 1..Len(step.calls[1].notes) :
          step.calls[1].notes[i].html = Render(step.calls[1].notes[i].text)

\* C4: in every reachable state the stored text contains no sentinel.
C4_NoSentinelInText == Sentinel \notin CharsOf(text)

\* C4 witness: setText, and a value-prop update, stored a text whose argument
\* held the sentinel.
C4_Witness ==
    /\ step.op \in {"setText", "value"}
    /\ Sentinel \in CharsOf(step.calls[1].arg)
    /\ Len(step.calls[1].rd) > 0
    /\ text = Normalize(step.calls[1].arg)
    /\ Newline \in CharsOf(text)

C6_AbsentTokenIsNoop ==
    [][(step'.op = "resolve" /\ ~step'.found)
        => /\ text' = text
           /\ html' = html
           /\ pending' = pending
           /\ afterQ' = afterQ
           /\ step'.calls[1].ev = <<>>
           /\ step'.calls[1].notes = <<>>
           /\ step'.calls[1].rd = <<>>]_vars

\* C6 witness: a placeholder was inserted, an edit removed it, and its promise
\* has resolved on a text without the token.
C6_Witness ==
    /\ step.op = "resolve"
    /\ Uncontrolled
    /\ ~step.found
    /\ step.calls[1].arg \in Tokens
    /\ step.calls[1].arg \notin placeholders
    /\ IndexOf(text, step.calls[1].arg) = 0

\* C7: right after a drop or paste the placeholder of each of its image files
\* is in the text, the placeholders in the order of the items.
C7_TokensInsertedAtDrop ==
    step.op = "drop"
    => \A i \in 1..Len(queue) :
          queue[i].kind = "file"
          => /\ IndexOf(text, queue[i].value) > 0
             /\ \A j \in 1..Len(queue) :
                   (queue[j].kind = "file" /\ i < j)
                   => IndexOf(text, queue[i].value) < IndexOf(text, queue[j].value)

\* ----------------------------------------------------------- claims C8-C10
NoTwoWithSameComp(reg) ==
    \A i, j \in 1..Len(reg) : reg[i].comp = reg[j].comp => i = j

Holds(reg, comp) == \E i \in 1..Len(reg) : reg[i].comp = comp

\* C8: the registry never holds a component twice; use(c, cfg) of a registered
\* c replaces the config at c's position and leaves the other entries and the
\* order alone, else appends; unuse(c) removes c's entry only and nothing when
\* c is not registered.
C8_RegistryReplacesInPlace ==
    /\ NoTwoWithSameComp(plugins)
    /\ [][/\ NoTwoWithSameComp(plugins')
          /\ step'.op = "use" =>
                IF Holds(plugins, step'.comp)
                THEN /\ Len(plugins') = Len(plugins)
                     /\ \A i \in 1..Len(plugins) :
                           IF plugins[i].comp = step'.comp
                           THEN plugins'[i] = [comp |-> step'.comp, config |-> step'.config]
                           ELSE plugins'[i] = plugins[i]
                ELSE /\ Len(plugins') = Len(plugins) + 1
                     /\ SubSeq(plugins', 1, Len(plugins)) = plugins
                     /\ plugins'[Len(plugins')] = [comp |-> step'.comp, config |-> step'.config]
          /\ step'.op = "unuse" =>
                /\ ~Holds(plugins', step'.comp)
                /\ Len(plugins') = Len(plugins) - (IF Holds(plugins, step'.comp) THEN 1 ELSE 0)
                /\ SelectSeq(plugins, LAMBDA it : it.comp # step'.comp) = plugins']_vars

\* C8 witness: use has replaced the config of the first of three entries.
C8_Witness ==
    /\ step.op = "use"
    /\ Len(plugins) = 3
    /\ plugins[1] = [comp |-> step.comp, config |-> "cfg"]

ActiveElements == statePlugins.left \o statePlugins.right

\* C9: the plugins resolved for an instance hold no two elements with one
\* identity (plugin name).  Stated for the identities other than the divider.
C9_ActiveIdentitiesUnique ==
    \A i, j \in 1..Len(ActiveElements) :
        (ActiveElements[i].key = ActiveElements[j].key
            /\ ActiveElements[i].key # PluginName(DividerPlugin))
        => i = j

\* The resolution as claimed: the list with 'fonts' expanded in place, each
\* name looked up in the registry (its first entry with that plugin name),
\* names without an entry skipped; no list: the registry.
RECURSIVE Expand(_)
Expand(list) ==
    IF list = <<>> THEN <<>>
    ELSE (IF Head(list) = "fonts" THEN FontsNames ELSE <<Head(list)>>) \o Expand(Tail(list))

Registered(name, reg) == {i \in 1..Len(reg) : PluginName(reg[i].comp) = name}
FirstRegistered(name, reg) ==
    reg[CHOOSE i \in Registered(name, reg) : \A j \in Registered(name, reg) : i <= j]

RECURSIVE LookUp(_, _)
LookUp(names, reg) ==
    IF names = <<>> THEN <<>>
    ELSE (IF Registered(Head(names), reg) = {} THEN <<>>
          ELSE <<FirstRegistered(Head(names), reg)>>) \o LookUp(Tail(names), reg)

\* the same, the name 'divider' standing for the built-in divider with an
\* empty config whether or not a divider is registered
RECURSIVE LookUpOrDivider(_, _)
LookUpOrDivider(names, reg) ==
    IF names = <<>> THEN <<>>
    ELSE (CASE Head(names) = "divider" ->
                  <<[comp |-> DividerPlugin, config |-> EmptyConfig]>>
            [] Registered(Head(names), reg) = {} -> <<>>
            [] OTHER -> <<FirstRegistered(Head(names), reg)>>)
         \o LookUpOrDivider(Tail(names), reg)

Partitioned(chosen) ==
    [left |-> SelectSeq([i \in 1..Len(chosen) |-> Element(chosen[i])],
                        LAMBDA e : Align(e.comp) = "left"),
     right |-> SelectSeq([i \in 1..Len(chosen) |-> Element(chosen[i])],
                         LAMBDA e : Align(e.comp) = "right")]

Resolving == step.op \in {"construct", "plugins"}

\* C10 as claimed: every name of the list is resolved against the registry.
C10_ResolvedAgainstRegistry ==
    Resolving
    => statePlugins =
          Partitioned(IF propPlugins = NoList THEN plugins
                      ELSE LookUp(Expand(propPlugins), plugins))

\* C10 amended: with an explicit list the result is that list in its order,
\* 'fonts' expanded in place, the name 'divider' resolved to the built-in
\* divider with an empty config whether or not it is registered, every other
\* name resolved to the first registry entry with that plugin name and skipped
\* when there is none; with no list the result is the whole registry in
\* registration order, so it is empty after unuseAll; the result is
\* partitioned by alignment and keeps the order inside each part.
C10_ResolvedWithBuiltInDivider ==
    Resolving
    => /\ statePlugins =
             Partitioned(IF propPlugins = NoList THEN plugins
                         ELSE LookUpOrDivider(Expand(propPlugins), plugins))
       /\ (propPlugins = NoList /\ plugins = <<>>)
             => statePlugins = [left |-> <<>>, right |-> <<>>]

\* C10 witness: a list with 'fonts' and 'divider' was resolved against a
\* registry that holds two of the fonts, into both alignments.
C10_Witness ==
    /\ Resolving
    /\ propPlugins = <<"divider", "fonts", "divider">>
    /\ Len(statePlugins.left) = 3
    /\ Len(statePlugins.right) = 1
    /\ statePlugins.left[2].key = "font-italic"

\* ---------------------------------------------------------- claims C11-C14
NoListenerTwice(reg) == \A i, j \in 1..Len(reg) : reg[i] = reg[j] => i = j
ElementsOf(q) == {q[i] : i \in 1..Len(q)}
Matching(reg, e) == {i \in 1..Len(reg) : IsKeyMatch(e, reg[i])}

\* C11: the list never holds a listener object twice; onKeyboard keeps the
\* listeners already stored where they are and stores each new object once,
\* after them; offKeyboard removes exactly the objects it is given, a listener
\* with the same key combination stays, and removes nothing when the object is
\* not stored; a keydown invokes the callback of the first stored listener
\* that matches, once, and of no later listener.
C11_ByIdentityFirstMatchWins ==
    /\ NoListenerTwice(keyboardListeners)
    /\ [][/\ step'.op = "onKeyboard" =>
                /\ NoListenerTwice(keyboardListeners')
                /\ SubSeq(keyboardListeners', 1, Len(keyboardListeners)) = keyboardListeners
                /\ ElementsOf(keyboardListeners') =
                      ElementsOf(keyboardListeners) \cup ElementsOf(step'.data)
          /\ step'.op = "offKeyboard" =>
                keyboardListeners' =
                    SelectSeq(keyboardListeners, LAMBDA it : it \notin ElementsOf(step'.data))
          /\ step'.op = "keydown" =>
                LET m == Matching(keyboardListeners, step'.key)
                IN  IF m = {} THEN step'.invoked = <<>>
                    ELSE step'.invoked =
                            <<keyboardListeners[CHOOSE i \in m : \A j \in m : i <= j]>>]_vars

\* C11 witness: k2 was registered before k1, both match the key, and the
\* keydown invoked k2 alone.
C11_Witness ==
    /\ step.op = "keydown"
    /\ step.key = "ctrl-b"
    /\ step.before = <<"k2", "k1">>
    /\ step.invoked = <<"k2">>
    /\ keyboardListeners = <<"k2", "k1">>

\* C12: for a text and offsets s <= e inside it, setSelection({start: s,
\* end: e}) and then getSelection() returns {start: s, end: e, text: the
\* text from s up to e}.
C12_SelectionRoundTrip ==
    step.op = "setSelection"
    => step.got = [start |-> step.to.start, end |-> step.to.end,
                   text |-> Slice(text, step.to.start, step.to.end)]

\* C13: insertText(value, replaceSelected, newSelection) on a text whose
\* surface holds the selection (s, e) leaves the text up to s, the value, and
\* the text from e on when replaceSelected is true, from s on otherwise; it
\* requests the selection (s, s) when newSelection is absent, else
\* newSelection moved by s.  Stated for an instance without a value prop.
C13_InsertsAtSelection ==
    (step.op = "insertText" /\ step.selection \in Selections(step.before))
    => LET s == step.selection.start
           e == step.selection.end
           value == step.calls[1].arg
       IN  /\ text = Slice(step.before, 0, s) \o value
                        \o Slice(step.before, IF step.replaceSelected THEN e ELSE s,
                                 Len(step.before))
           /\ step.requested =
                 IF step.newSelection = NoSelection THEN [start |-> s, end |-> s]
                 ELSE [start |-> step.newSelection.start + s,
                       end |-> step.newSelection.end + s]

\* C14: a setText that changes the text emits exactly one change event, and
\* its flag says programmatic when the host made the call (setText,
\* insertText) and externally sourced when the user typed in the surface.
C14_FlagTellsTheSource ==
    [][(step'.op \in {"edit", "setText", "insertText"} /\ text' # text)
        => /\ Len(step'.calls[1].ev) = 1
           /\ step'.calls[1].ev[1].programmatic = (step'.op # "edit")]_vars

\* --------------------------------------------------------------- claim C15
\* C15: without a render function a render resolves at once and leaves the
\* stored html as it is, no render is ever in flight, and setText goes on
\* working: a call with a new value emits its change event, notifies onChange
\* before the render when so configured, with the html unchanged, has its
\* "after render" notification queued when it returns, and, on an instance
\* without a value prop, leaves the normalized value in the text.
C15_NoRenderFunction ==
    /\ renderMode = "none" => (html = EmptyHtml /\ pending = <<>>)
    /\ [][(renderMode = "none" /\ step'.op = "setText" /\ step'.calls[1].arg # text)
            => LET call == step'.calls[1]
               IN  /\ html' = html
                   /\ pending' = <<>>
                   /\ call.rd = <<>>
                   /\ call.ev = <<ChangeEvent(call.arg)>>
                   /\ call.notes =
                         IF onChangeTrigger \in BeforeTriggers
                         THEN <<[phase |-> "before", text |-> Normalize(call.arg),
                                 html |-> html]>>
                         ELSE <<>>
                   /\ afterQ' = afterQ + (IF onChangeTrigger \in AfterTriggers THEN 1 ELSE 0)
                   /\ Uncontrolled => text' = Normalize(call.arg)]_vars

\* C15 witness: an instance without a render function took a setText that
\* changed its text and notified the host, the html still the initial one.
C15_Witness ==
    /\ renderMode = "none"
    /\ Uncontrolled
    /\ step.op = "setText"
    /\ Len(step.calls[1].ev) = 1
    /\ Len(step.calls[1].notes) = 1
    /\ text = <<"a", Newline>>
    /\ afterQ = 1
    /\ html = EmptyHtml

\* ---------------------------------------------------------- claims C16-C19
SyncEnabled(type) == FollowMode(type) \in syncScrollMode
HeightRatio == Reduce(Ratio(scrollHeight["md"], scrollHeight["html"]))

\* C16: the scroll event a pane raises because the synchronizer wrote its
\* offset is neither passed to the host nor answered with a frame request,
\* and a scroll event of the pane that is not the active source changes and
\* schedules nothing.
C16_NoFeedback ==
    /\ (step.op = "scroll" /\ step.origin = "write")
          => (~step.emitted /\ ~step.rescaled /\ ~step.scheduled)
    /\ (step.op = "scroll" /\ step.type # step.active)
          => (~step.emitted /\ ~step.rescaled /\ ~step.scheduled)

\* C17: at most one frame callback is waiting at any time, it is waiting
\* exactly while isSyncingScroll is true, a scroll event taken while
\* isSyncingScroll is true requests none, and a frame makes at most one write.
C17_OneCallbackPerFrame ==
    /\ Len(frames) <= 1
    /\ isSyncingScroll <=> frames # <<>>
    /\ (step.op = "scroll" /\ step.syncing) => ~step.scheduled
    /\ step.op = "frame" => Len(step.writes) <= 1

\* C17 witness: a scroll event of the active pane, passed to the host with
\* sync enabled, arrived while the callback of an earlier one was waiting.
C17_Witness ==
    /\ step.op = "scroll"
    /\ step.origin = "user"
    /\ step.emitted
    /\ SyncEnabled(step.type)
    /\ step.syncing
    /\ Len(frames) = 1
    /\ isSyncingScroll

\* C18: with sync enabled, a scroll event of the editing pane taken while the
\* content has changed sets the scale to the height of the editing pane over
\* the height of the preview and clears the flag; the frame of a scroll of
\* the editing pane at offset O writes O over that ratio to the preview, the
\* frame of a scroll of the preview at O writes O times that ratio to the
\* editing pane.
C18_ScaledByHeights ==
    /\ (step.op = "scroll" /\ step.type = "md" /\ step.emitted
            /\ SyncEnabled("md") /\ step.dirty)
          => (Reduce(scrollScale) = HeightRatio /\ ~hasContentChanged)
    /\ step.op = "frame"
          => \A i \in 1..Len(step.writes) :
                step.writes[i].value =
                    IF step.writes[i].pane = "html"
                    THEN Over(step.from["md"], HeightRatio)
                    ELSE Times(step.from["html"], HeightRatio)

\* C19: the active source is the pane the pointer moved over last, so that a
\* scroll of the editing pane by the user, the pointer over it, is passed to
\* the host and, with sync enabled, has a frame callback waiting.
C19_ActiveSourceFollowsPointer ==
    /\ step.op = "mouseover" => shouldSyncScroll = step.pane
    /\ (step.op = "scroll" /\ step.origin = "user" /\ step.type = "md"
            /\ pointer = "md")
          => (step.emitted /\ (SyncEnabled("md") => isSyncingScroll))

\* --------------------------------------------------------------- claim C20
\* C20: when the texts of a drop or paste have been read and inserted and
\* each of its uploads has resolved, in whatever order, and the user has not
\* typed since the drop, the text holds none of the placeholders of the drop.
C20_TokensConsumed ==
    (~queueOpen /\ ~edited /\ FileTokens(queue) \cap uploads = {})
    => \A tk \in FileTokens(queue) : IndexOf(text, tk) = 0

\* --------------------------------------------------------------- claim C21
\* the instance as componentDidUpdate reads it
Settled(t, h, p, q) ==
    [text |-> t, html |-> h, pending |-> p, afterQ |-> q,
     dirty |-> TRUE, ev |-> <<>>, notes |-> <<>>, rd |-> <<>>]

\* C21: an update of the value prop of a controlled editor ends with the
\* normalized value (of its string form) in the text and with nothing left
\* to do: one more componentDidUpdate changes nothing; it overwrites the text
\* and issues a render, one, of the render function if there is one, only
\* when the normalized value differs from the stored text, and it emits no
\* change event and calls no onChange.
C21_ValueReconciles ==
    [][step'.op = "value"
        => LET v == step'.calls[1].arg
               value == Normalize(ToStr(v))
               call == step'.calls[1]
           IN  /\ propValue' = v
               /\ text' = value
               /\ ComponentDidUpdate(Settled(text', html', pending', afterQ'), v)
                     = Settled(text', html', pending', afterQ')
               /\ call.rd = IF value # text /\ renderMode # "none" THEN <<value>> ELSE <<>>
               /\ value = text => (html' = html /\ pending' = pending)
               /\ call.ev = <<>>
               /\ call.notes = <<>>
               /\ afterQ' = afterQ]_vars

\* C21 witness: the host passed the number, and a value with the sentinel,
\* and the text is its normalized string form, rendered once.
C21_Witness ==
    /\ step.op = "value"
    /\ step.calls[1].arg \in {Seven, <<"a", Sentinel>>}
    /\ propValue = step.calls[1].arg
    /\ text = Normalize(ToStr(propValue))
    /\ text # propValue
    /\ step.calls[1].rd = <<text>>

\* --------------------------------------------------------------- claim C22
\* C22: a keydown that matches a stored listener emits nothing on the
\* keydown channel; a keydown that matches none emits the keydown event,
\* once, and invokes no callback.
C22_KeydownEmittedWhenUnmatched ==
    step.op = "keydown"
    => IF Matching(step.before, step.key) # {}
       THEN ~step.emitted /\ step.prevented
       ELSE step.emitted /\ ~step.prevented /\ step.invoked = <<>>

\* C22 witness: listeners are stored, the key matches none of them and the
\* keydown event was emitted.
C22_Witness ==
    /\ step.op = "keydown"
    /\ step.key = "x"
    /\ Len(step.before) = 3
    /\ step.emitted
    /\ step.invoked = <<>>
    /\ keyboardListeners = step.before

C24_GuardReleased ==
    /\ [](step.op = "frame" => ~isSyncingScroll)
    /\ (isSyncingScroll ~> ~isSyncingScroll)

\* C24 witness: the editor was removed with a callback waiting, the callback
\* ran, wrote nothing and released the guard.
C24_Witness ==
    /\ step.op = "frame"
    /\ unmounted
    /\ Len(step.callbacks) = 1
    /\ step.writes = <<>>
    /\ ~isSyncingScroll

====
